---- MODULE Spec2Model ----
(***************************************************************************)
(* A model of PrefixTrieBase<CharT> (src/src/prefix_trie.h): the node      *)
(* graph owned by root_, the mutating operations Insert, Remove, Clear and *)
(* FromJSON, and the queries Contains, Count, Size, MatchWithCallback,     *)
(* MatchFuzzy, GetStats, ToJSON and Visualize.                             *)
(*                                                                         *)
(* A node is identified by the sequence of children-map keys (edge labels) *)
(* that leads to it from the root; the graph is the function from those    *)
(* paths to the nodes' key_ fields.  The children map of the node at path  *)
(* p is the set of symbols c with Append(p, c) in the graph's domain.      *)
(* Because every node is owned by exactly one parent, two graphs are       *)
(* structurally identical exactly when the two functions are equal.        *)
(***************************************************************************)
EXTENDS Integers, Sequences, FiniteSets, TLC

\* The symbols client strings are made of, as byte values: the double quote,
\* which ToJSON has to escape, and the letter a, which it writes as it is.
Sym == {34, 97}

\* CharT(): the key of the root and of every termination marker.
NUL == 0

\* Longest string a client passes to an operation.
MaxLen == 2

\* Number of operations recorded in the operation log.
MaxOps == 3

\* Most termination markers the node graph is let to hold at once.
MaxMarkers == 2

\* Most fragments a text handed to FromJSON is put together from.
MaxFrags == 5

RECURSIVE SeqsUpTo(_)
SeqsUpTo(n) ==
  IF n = 0 THEN {<<>>}
  ELSE LET shorter == SeqsUpTo(n - 1)
       IN  shorter \cup {Append(s, c) : s \in {x \in shorter : Len(x) = n - 1}, c \in Sym}

\* Every string a client passes to Insert or Remove, the empty string included.
Str == SeqsUpTo(MaxLen)

\* Every string a client asks about: one symbol longer, as deep as the graph.
QStr == SeqsUpTo(MaxLen + 1)

\* s[1..i]
Take(s, i) == SubSeq(s, 1, i)

IsPrefix(p, s) == Len(p) <= Len(s) /\ Take(s, Len(p)) = p

VARIABLES
  root,   \* the node graph: path of map keys |-> key_ of the node there
  pre,    \* the node graph before the last operation
  op,     \* the last operation: "New", a mutating call or a query
  arg,    \* the string (or JSON text) passed to, or encoded by, the last operation
  log,    \* the operations so far, oldest first (maintained by SpecLog)
  dist,   \* the max_distance passed to the last operation (0 when it takes none)
  ret     \* what the last operation returned, as a sequence (<<>> for void)

vars == <<root, pre, op, arg, log, dist, ret>>

\* A node with the default key and no children.
EmptyTrie == [p \in {<<>>} |-> NUL]

\* The keys of the children map of the node at path p.
Children(t, p) == {c \in Sym : Append(p, c) \in DOMAIN t}

\* children_.erase(c) on the node at p: the child and all it owns are released.
EraseChild(t, p, c) ==
  LET gone == Append(p, c)
      keep == {q \in DOMAIN t : ~IsPrefix(gone, q)}
  IN  [q \in keep |-> t[q]]

\* children_[c] = make_unique<TrieNode>(k) on the node at p: a childless node
\* with key k replaces whatever the map held under c.
SetChild(t, p, c, k) ==
  LET at   == Append(p, c)
      keep == {q \in DOMAIN t : ~IsPrefix(at, q)}
  IN  [q \in keep \cup {at} |-> IF q = at THEN k ELSE t[q]]

\* Insert's first loop: follow existing edges; the result is cur_index.
RECURSIVE InsertWalk(_, _, _)
InsertWalk(t, s, i) ==
  IF Children(t, Take(s, i)) # {} /\ i < Len(s)
  THEN IF s[i + 1] \notin Children(t, Take(s, i)) THEN i
       ELSE InsertWalk(t, s, i + 1)
  ELSE i

\* Insert's second loop: create a node for each remaining symbol.
RECURSIVE InsertCreate(_, _, _)
InsertCreate(t, s, i) ==
  IF i < Len(s)
  THEN InsertCreate(SetChild(t, Take(s, i), s[i + 1], s[i + 1]), s, i + 1)
  ELSE t

\* Insert without its second loop: the marker is attached where the walk
\* along existing edges stopped.
InsertNoCreate(t, s) ==
  IF s = <<>> THEN t
  ELSE LET k == InsertWalk(t, s, 0)
       IN  SetChild(t, Take(s, k), s[Len(s)], NUL)

\* Insert whose walk also follows the marker's edge at the end of s, so that
\* the marker of a string already complete gets a marker of its own.
InsertDescend(t, s) ==
  IF s = <<>> THEN t
  ELSE LET sm == Append(s, s[Len(s)])
           k  == InsertWalk(t, sm, 0)
       IN  IF k > Len(s) THEN SetChild(t, sm, s[Len(s)], NUL)
           ELSE SetChild(InsertCreate(t, s, k), s, s[Len(s)], NUL)

\* Insert without its test for the empty string: the empty string gets a
\* marker of its own, right below the root.
InsertEmptyMarker(t, s) ==
  IF s = <<>> THEN SetChild(t, <<>>, CHOOSE c \in Sym : TRUE, NUL)
  ELSE LET k == InsertWalk(t, s, 0)
       IN  SetChild(InsertCreate(t, s, k), s, s[Len(s)], NUL)

\* Insert that leaves a child already present in the marker's slot in place,
\* as an emplace would, instead of assigning over it.
InsertKeepSlot(t, s) ==
  IF s = <<>> THEN t
  ELSE LET k == InsertWalk(t, s, 0)
           g == InsertCreate(t, s, k)
       IN  IF s[Len(s)] \in Children(g, s) THEN g
           ELSE SetChild(g, s, s[Len(s)], NUL)

\* Insert(s): the marker is stored under the LAST SYMBOL of s in the end
\* node's children map, with key CharT().
Insert(t, s) ==
  IF s = <<>> THEN t
  ELSE LET k == InsertWalk(t, s, 0)
       IN  SetChild(InsertCreate(t, s, k), s, s[Len(s)], NUL)

\* Remove's downward walk: TRUE when every edge of s exists.
RECURSIVE RemoveWalk(_, _, _)
RemoveWalk(t, s, i) ==
  IF i < Len(s)
  THEN IF s[i + 1] \notin Children(t, Take(s, i)) THEN FALSE
       ELSE RemoveWalk(t, s, i + 1)
  ELSE TRUE

\* A walk back up that removes nothing.
RemovePruneNone(t, s, i) == t

\* A walk back up that removes every node of the path, childless or not.
RemovePruneAll(t, s, i) == IF i = 0 THEN t ELSE EraseChild(t, <<>>, s[1])

\* A walk back up that removes the first childless node only.
RemovePruneOne(t, s, i) ==
  IF i = 0 THEN t
  ELSE IF Children(t, Take(s, i)) = {}
       THEN EraseChild(t, Take(s, i - 1), s[i])
       ELSE t

\* Remove's walk back up the recorded path, from the entry for s[i].
RECURSIVE RemovePrune(_, _, _)
RemovePrune(t, s, i) ==
  IF i = 0 THEN t
  ELSE IF Children(t, Take(s, i)) = {}
       THEN RemovePrune(EraseChild(t, Take(s, i - 1), s[i]), s, i - 1)
       ELSE t

Remove(t, s) ==
  IF s = <<>> THEN t
  ELSE IF ~RemoveWalk(t, s, 0) THEN t
  ELSE IF s[Len(s)] \notin Children(t, s) THEN t
  ELSE RemovePrune(EraseChild(t, s, s[Len(s)]), s, Len(s))

\* A Clear that keeps the graph it was given.
ClearNothing(t) == t

\* Clear(): root_.reset(new TrieNode()).
Clear(t) == EmptyTrie

\* Contains(s)
RECURSIVE ContainsWalk(_, _, _)
ContainsWalk(t, s, i) ==
  IF Children(t, Take(s, i)) # {} /\ i < Len(s)
  THEN IF s[i + 1] \notin Children(t, Take(s, i)) THEN FALSE
       ELSE ContainsWalk(t, s, i + 1)
  ELSE i = Len(s)

Contains(t, s) == IF s = <<>> THEN TRUE ELSE ContainsWalk(t, s, 0)

\* The orders in which an unordered_map may hand out its entries.
Orders == {o \in [1..Cardinality(Sym) -> Sym] : \A c \in Sym : \E i \in DOMAIN o : o[i] = c}

\* The children of the node at p, as paths, in iteration order ord.
ChildPaths(t, p, ord) ==
  LET present(c) == c \in Children(t, p)
      keys == SelectSeq(ord, present)
  IN  [i \in 1..Len(keys) |-> Append(p, keys[i])]

\* Navigation of Count and MatchWithCallback to the end of the prefix: TRUE
\* when every edge exists.
RECURSIVE PathExists(_, _, _)
PathExists(t, s, i) ==
  IF i < Len(s)
  THEN IF s[i + 1] \notin Children(t, Take(s, i)) THEN FALSE
       ELSE PathExists(t, s, i + 1)
  ELSE TRUE

\* A depth-first loop that counts a marker and goes on below it.
RECURSIVE CountLoopDeep(_, _, _, _)
CountLoopDeep(t, nodes, count, ord) ==
  IF nodes = <<>> THEN count
  ELSE LET node == nodes[Len(nodes)]
           rest == Take(nodes, Len(nodes) - 1)
       IN  CountLoopDeep(t, rest \o ChildPaths(t, node, ord),
                         IF t[node] = NUL THEN count + 1 ELSE count, ord)

\* Count's depth-first loop; nodes is the stack, its top last.
RECURSIVE CountLoop(_, _, _, _)
CountLoop(t, nodes, count, ord) ==
  IF nodes = <<>> THEN count
  ELSE LET node == nodes[Len(nodes)]
           rest == Take(nodes, Len(nodes) - 1)
       IN  IF t[node] = NUL THEN CountLoop(t, rest, count + 1, ord)
           ELSE CountLoop(t, rest \o ChildPaths(t, node, ord), count, ord)

CountOrd(t, prefix, ord) ==
  IF ~PathExists(t, prefix, 0) THEN 0
  ELSE CountLoop(t, ChildPaths(t, prefix, ord), 0, ord)

\* Count(prefix); the number counted does not depend on the iteration order.
Count(t, prefix) == CountOrd(t, prefix, CHOOSE o \in Orders : TRUE)

\* Size()
Size(t) == Count(t, <<>>)

\* base.str(): the keys of the nodes along the prefix's path.
BaseKeys(t, s) == [i \in 1..Len(s) |-> t[Take(s, i)]]

\* MatchWithCallback's depth-first loop.  nodes is the stack of <<depth, node>>
\* pairs, its top last; out is the sequence of strings passed to the callback.
RECURSIVE MatchLoop(_, _, _, _, _, _)
MatchLoop(t, prefix, nodes, postfix, out, ord) ==
  IF nodes = <<>> THEN out
  ELSE LET tmp  == nodes[Len(nodes)]
           rest == Take(nodes, Len(nodes) - 1)
           post == IF Len(prefix) + Len(postfix) > tmp[1]
                   THEN Take(postfix, tmp[1] - Len(prefix))
                   ELSE postfix
           kids == ChildPaths(t, tmp[2], ord)
       IN  IF t[tmp[2]] = NUL
           THEN MatchLoop(t, prefix, rest, post, Append(out, prefix \o post), ord)
           ELSE MatchLoop(t, prefix,
                          rest \o [i \in 1..Len(kids) |-> <<tmp[1] + 1, kids[i]>>],
                          Append(post, t[tmp[2]]), out, ord)

\* MatchWithCallback(s, callback): the strings passed to the callback, in order.
MatchWithCallback(t, s, ord) ==
  IF ~PathExists(t, s, 0) THEN <<>>
  ELSE LET kids == ChildPaths(t, s, ord)
       IN  MatchLoop(t, BaseKeys(t, s),
                     [i \in 1..Len(kids) |-> <<Len(s), kids[i]>>], <<>>, <<>>, ord)

\* The set of strings Match(s) emits.
Match(t, s, ord) == {MatchWithCallback(t, s, ord)[i] : i \in 1..Len(MatchWithCallback(t, s, ord))}

(***************************************************************************)
(* MatchFuzzy.  A row of the edit-distance table is a sequence whose entry  *)
(* i + 1 is the code's row[i].                                             *)
(***************************************************************************)

Min3(a, b, c) == IF a <= b /\ a <= c THEN a ELSE IF b <= c THEN b ELSE c

\* min_distance: the smallest entry of a row.
MinRow(row) == CHOOSE m \in {row[i] : i \in DOMAIN row} : \A i \in DOMAIN row : m <= row[i]

\* current_row for the edge symbol ch, filled left to right from previous_row;
\* cur holds the entries computed so far.
RECURSIVE FuzzyRow(_, _, _, _)
FuzzyRow(previous_row, ch, query, cur) ==
  IF Len(cur) = Len(query) + 1 THEN cur
  ELSE LET i == Len(cur)
           substitute_cost == previous_row[i] + (IF query[i] # ch THEN 1 ELSE 0)
       IN  FuzzyRow(previous_row, ch, query,
                    Append(cur, Min3(cur[i] + 1, previous_row[i + 1] + 1, substitute_cost)))

\* FuzzySearchRecursive(node, ch, ...) and its loop over the children of a
\* node, from the k-th on; both return the results vector as they leave it.
RECURSIVE FuzzySearchRecursive(_, _, _, _, _, _, _, _, _)
RECURSIVE FuzzyChildren(_, _, _, _, _, _, _, _, _)
FuzzySearchRecursive(t, node, ch, query, current_str, previous_row, max_distance, results, ord) ==
  IF t[node] = NUL
  THEN LET final_distance == previous_row[Len(query) + 1]
       IN  IF final_distance <= max_distance
           THEN Append(results, <<current_str, final_distance>>)
           ELSE results
  ELSE LET current_row == FuzzyRow(previous_row, ch, query, <<previous_row[1] + 1>>)
       IN  IF MinRow(current_row) > max_distance THEN results
           ELSE FuzzyChildren(t, ChildPaths(t, node, ord), 1, query,
                              Append(current_str, ch), current_row, max_distance, results, ord)

FuzzyChildren(t, kids, k, query, str, row, max_distance, results, ord) ==
  IF k > Len(kids) THEN results
  ELSE FuzzyChildren(t, kids, k + 1, query, str, row, max_distance,
                     FuzzySearchRecursive(t, kids[k], kids[k][Len(kids[k])], query, str,
                                          row, max_distance, results, ord),
                     ord)

\* MatchFuzzy(query, max_distance): the vector of <<string, distance>> pairs.
MatchFuzzy(t, query, max_distance, ord) ==
  IF max_distance < 0 THEN <<>>
  ELSE FuzzyChildren(t, ChildPaths(t, <<>>, ord), 1, query, <<>>,
                     [i \in 1..(Len(query) + 1) |-> i - 1], max_distance, <<>>, ord)

(***************************************************************************)
(* GetStats: the counters its traversal keeps.                             *)
(***************************************************************************)

\* GetStats' depth-first loop; nodes is the stack of <<node, depth>> pairs, its
\* top last, and st the counters so far.
RECURSIVE StatsLoop(_, _, _, _)
StatsLoop(t, nodes, st, ord) ==
  IF nodes = <<>> THEN st
  ELSE LET node  == nodes[Len(nodes)][1]
           depth == nodes[Len(nodes)][2]
           rest  == Take(nodes, Len(nodes) - 1)
           kids  == ChildPaths(t, node, ord)
           seen  == [st EXCEPT !.num_nodes = @ + 1]
       IN  IF t[node] = NUL
           THEN StatsLoop(t, rest,
                          [seen EXCEPT !.num_strings = @ + 1,
                                       !.total_depth = @ + depth,
                                       !.max_depth = IF depth > @ THEN depth ELSE @],
                          ord)
           ELSE StatsLoop(t, rest \o [i \in 1..Len(kids) |-> <<kids[i], depth + 1>>],
                          IF Len(kids) > 0
                          THEN [seen EXCEPT !.non_leaf_nodes = @ + 1,
                                            !.total_children = @ + Len(kids)]
                          ELSE seen,
                          ord)

\* sizeof(TrieNode) and sizeof(CharT) + sizeof(std::unique_ptr<TrieNode>) of the
\* char instantiation on a 64-bit build.
NodeOverhead == 64

MapEntryOverhead == 9

\* The memory estimate GetStats() computes from its counters.
MemoryBytes(st) ==
  st.num_nodes * NodeOverhead + st.total_children * MapEntryOverhead

\* GetStats(): the counters of the traversal and the memory estimate; the two
\* averages are the quotients total_depth / num_strings and
\* total_children / non_leaf_nodes of the counters kept here.
GetStats(t, ord) ==
  LET kids == ChildPaths(t, <<>>, ord)
      st   == StatsLoop(t, [i \in 1..Len(kids) |-> <<kids[i], 1>>],
                        [num_nodes |-> 1, num_strings |-> 0, max_depth |-> 0,
                         total_depth |-> 0, non_leaf_nodes |-> 0,
                         total_children |-> 0],
                        ord)
  IN  [num_nodes |-> st.num_nodes, num_strings |-> st.num_strings,
       max_depth |-> st.max_depth, total_depth |-> st.total_depth,
       non_leaf_nodes |-> st.non_leaf_nodes,
       total_children |-> st.total_children,
       memory_bytes |-> MemoryBytes(st)]

(***************************************************************************)
(* What the queries do to the node graph.  They reach a child through      *)
(* Children()[c] on the non-const map, and operator[] adds an entry for a  *)
(* key it does not find.                                                   *)
(***************************************************************************)

\* The null unique_ptr that operator[] stores under a key it does not find.
NullPtr == -1

\* The graph after Children()[c] on the node at p.
Subscript(t, p, c) ==
  IF c \in Children(t, p) THEN t
  ELSE [q \in DOMAIN t \cup {Append(p, c)} |-> IF q \in DOMAIN t THEN t[q] ELSE NullPtr]

\* The graph after the loop of Contains.
RECURSIVE ContainsGraph(_, _, _)
ContainsGraph(t, s, i) ==
  IF Children(t, Take(s, i)) # {} /\ i < Len(s)
  THEN IF s[i + 1] \notin Children(t, Take(s, i)) THEN t
       ELSE ContainsGraph(Subscript(t, Take(s, i), s[i + 1]), s, i + 1)
  ELSE t

\* A navigation that takes the child by subscript without looking it up first.
PathGraphNoFind(t, s, i) ==
  IF i < Len(s) THEN Subscript(t, Take(s, i), s[i + 1]) ELSE t

\* The graph after the navigation of Count and MatchWithCallback to the end
\* of the prefix.
RECURSIVE PathGraph(_, _, _)
PathGraph(t, s, i) ==
  IF i < Len(s)
  THEN IF s[i + 1] \notin Children(t, Take(s, i)) THEN t
       ELSE PathGraph(Subscript(t, Take(s, i), s[i + 1]), s, i + 1)
  ELSE t

(***************************************************************************)
(* Visualize.  acc holds the graph and the text written so far.            *)
(***************************************************************************)

\* visualize_node(node, prefix, 0) and its loop over the children, from the
\* i-th on.
RECURSIVE VisualizeNode(_, _, _, _)
RECURSIVE VisualizeKids(_, _, _, _, _)
VisualizeNode(acc, node, prefix, ord) ==
  VisualizeKids(acc, ChildPaths(acc.graph, node, ord), 1, prefix, ord)

VisualizeKids(acc, kids, i, prefix, ord) ==
  IF i > Len(kids) THEN acc
  ELSE LET child == kids[i]
           is_last == i = Len(kids)
           connector == IF is_last THEN <<43, 45, 45, 32>> ELSE <<124, 45, 45, 32>>
           child_prefix == prefix \o (IF is_last THEN <<32, 32, 32, 32>> ELSE <<124, 32, 32, 32>>)
           key == acc.graph[child]
       IN  IF key = NUL
           THEN VisualizeKids([graph |-> acc.graph,
                               out |-> acc.out \o prefix \o connector \o <<91, 69, 78, 68, 93, 10>>],
                              kids, i + 1, prefix, ord)
           ELSE LET found == key \in Children(acc.graph, child)
                    g == IF found THEN Subscript(acc.graph, child, key) ELSE acc.graph
                    has_terminator == found /\ g[Append(child, key)] = NUL
                    line == prefix \o connector \o <<key>>
                              \o (IF has_terminator THEN <<32, 42>> ELSE <<>>) \o <<10>>
                IN  VisualizeKids(VisualizeNode([graph |-> g, out |-> acc.out \o line],
                                                child, child_prefix, ord),
                                  kids, i + 1, prefix, ord)

\* Visualize(): the graph it leaves and the text it returns.
Visualize(t, ord) ==
  VisualizeNode([graph |-> t, out |-> <<82, 111, 111, 116, 10>>], <<>>, <<>>, ord)

(***************************************************************************)
(* ToJSON and FromJSON.  A JSON text is a sequence of byte values.         *)
(***************************************************************************)

Quote == 34
Backslash == 92
LineFeed == 10
CarriageReturn == 13
Tab == 9
Space == 32
LBracket == 91
RBracket == 93
Comma == 44
LetterN == 110
LetterR == 114
LetterT == 116
LetterU == 117

\* What ToJSON writes for one symbol of a byte-wide string.
Escape(ch) ==
  IF ch = Quote THEN <<Backslash, Quote>>
  ELSE IF ch = Backslash THEN <<Backslash, Backslash>>
  ELSE IF ch = LineFeed THEN <<Backslash, LetterN>>
  ELSE IF ch = CarriageReturn THEN <<Backslash, LetterR>>
  ELSE IF ch = Tab THEN <<Backslash, LetterT>>
  ELSE <<ch>>

\* The inner loop of ToJSON: the symbols of one string, from the j-th on.
RECURSIVE EscapeString(_, _)
EscapeString(str, j) ==
  IF j > Len(str) THEN <<>>
  ELSE Escape(str[j]) \o EscapeString(str, j + 1)

\* The outer loop of ToJSON: the strings from the i-th on.
RECURSIVE ToJSONLoop(_, _)
ToJSONLoop(all_strings, i) ==
  IF i > Len(all_strings) THEN <<>>
  ELSE (IF i > 1 THEN <<Comma>> ELSE <<>>)
         \o <<Quote>> \o EscapeString(all_strings[i], 1) \o <<Quote>>
         \o ToJSONLoop(all_strings, i + 1)

\* ToJSON(), the map iteration order being ord.
ToJSON(t, ord) ==
  <<LBracket>> \o ToJSONLoop(MatchWithCallback(t, <<>>, ord), 1) \o <<RBracket>>

\* skip_whitespace: the position it leaves pos at (positions count from 1).
RECURSIVE SkipWhitespace(_, _)
SkipWhitespace(json, pos) ==
  IF pos <= Len(json) /\ json[pos] \in {Space, LineFeed, CarriageReturn, Tab}
  THEN SkipWhitespace(json, pos + 1)
  ELSE pos

\* The value of a hexadecimal digit, -1 for any other byte.
HexValue(hex) ==
  IF hex \in 48..57 THEN hex - 48
  ELSE IF hex \in 97..102 THEN hex - 97 + 10
  ELSE IF hex \in 65..70 THEN hex - 65 + 10
  ELSE -1

\* FromJSON's string loop, entered after the opening quote.  The result tells
\* whether the loop ended without a return, where it left pos, and the string.
RECURSIVE ParseString(_, _, _)
ParseString(json, pos, str) ==
  IF pos <= Len(json) /\ json[pos] # Quote
  THEN IF json[pos] = Backslash
       THEN IF pos + 1 > Len(json) THEN [ok |-> FALSE, pos |-> pos + 1, str |-> str]
            ELSE LET e == json[pos + 1]
                 IN  IF e = Quote THEN ParseString(json, pos + 2, Append(str, Quote))
                     ELSE IF e = Backslash THEN ParseString(json, pos + 2, Append(str, Backslash))
                     ELSE IF e = LetterN THEN ParseString(json, pos + 2, Append(str, LineFeed))
                     ELSE IF e = LetterR THEN ParseString(json, pos + 2, Append(str, CarriageReturn))
                     ELSE IF e = LetterT THEN ParseString(json, pos + 2, Append(str, Tab))
                     ELSE IF e = LetterU
                     THEN IF pos + 4 >= Len(json)
                          THEN [ok |-> FALSE, pos |-> pos + 1, str |-> str]
                          ELSE LET h == [i \in 1..4 |-> HexValue(json[pos + 1 + i])]
                                   code == ((h[1] * 16 + h[2]) * 16 + h[3]) * 16 + h[4]
                               IN  IF \E i \in 1..4 : h[i] < 0
                                   THEN [ok |-> FALSE, pos |-> pos + 2, str |-> str]
                                   ELSE ParseString(json, pos + 6, Append(str, code % 256))
                     ELSE [ok |-> FALSE, pos |-> pos + 1, str |-> str]
       ELSE ParseString(json, pos + 1, Append(str, json[pos]))
  ELSE [ok |-> TRUE, pos |-> pos, str |-> str]

\* FromJSON's element loop on the graph t.  The result is the value returned,
\* the graph left behind and the strings passed to Insert, in order.
RECURSIVE FromJSONLoop(_, _, _, _)
FromJSONLoop(t, json, pos, strs) ==
  IF pos <= Len(json)
  THEN LET p1 == SkipWhitespace(json, pos)
       IN  IF p1 > Len(json) THEN [ok |-> FALSE, graph |-> t, strs |-> strs]
           ELSE IF json[p1] = RBracket THEN [ok |-> TRUE, graph |-> t, strs |-> strs]
           ELSE IF json[p1] # Quote THEN [ok |-> FALSE, graph |-> t, strs |-> strs]
           ELSE LET r == ParseString(json, p1 + 1, <<>>)
                IN  IF ~r.ok \/ r.pos > Len(json)
                    THEN [ok |-> FALSE, graph |-> t, strs |-> strs]
                    ELSE LET p2 == SkipWhitespace(json, r.pos + 1)
                             p3 == IF p2 <= Len(json) /\ json[p2] = Comma THEN p2 + 1 ELSE p2
                         IN  FromJSONLoop(Insert(t, r.str), json, p3, Append(strs, r.str))
  ELSE [ok |-> FALSE, graph |-> t, strs |-> strs]

\* FromJSON(json) on the graph t.
FromJSON(t, json) ==
  LET cleared == Clear(t)
      p0 == SkipWhitespace(json, 1)
  IN  IF p0 > Len(json) \/ json[p0] # LBracket
      THEN [ok |-> FALSE, graph |-> cleared, strs |-> <<>>]
      ELSE FromJSONLoop(cleared, json, p0 + 1, <<>>)

Init ==
  /\ root = EmptyTrie
  /\ pre = EmptyTrie
  /\ op = "New"
  /\ arg = <<>>
  /\ log = <<>>
  /\ dist = 0
  /\ ret = <<>>

\* The termination markers of the graph: the nodes, other than the root, whose
\* key is CharT().
Markers(t) == {p \in DOMAIN t : p # <<>> /\ t[p] = NUL}

DoInsert(s) ==
  LET new == Insert(root, s)
  IN  /\ Cardinality(Markers(new)) <= MaxMarkers
      /\ root' = new
      /\ pre' = root
      /\ op' = "Insert"
      /\ arg' = s
      /\ dist' = 0
      /\ ret' = <<>>

DoRemove(s) ==
  /\ root' = Remove(root, s)
  /\ pre' = root
  /\ op' = "Remove"
  /\ arg' = s
  /\ dist' = 0
  /\ ret' = <<>>

DoClear ==
  /\ root' = Clear(root)
  /\ pre' = root
  /\ op' = "Clear"
  /\ arg' = <<>>
  /\ dist' = 0
  /\ ret' = <<>>

InsertStep == \E s \in Str : DoInsert(s) /\ UNCHANGED log
RemoveStep == \E s \in Str : DoRemove(s) /\ UNCHANGED log
ClearStep == DoClear /\ UNCHANGED log

Next == InsertStep \/ RemoveStep \/ ClearStep

Spec == Init /\ [][Next]_vars

\* The same operations, each recorded in the log, for at most MaxOps calls.
LogInsert == \E s \in Str : Len(log) < MaxOps /\ DoInsert(s) /\ log' = Append(log, <<"Insert", s>>)
LogRemove == \E s \in Str : Len(log) < MaxOps /\ DoRemove(s) /\ log' = Append(log, <<"Remove", s>>)
LogClear == Len(log) < MaxOps /\ DoClear /\ log' = Append(log, <<"Clear", <<>>>>)

NextLog == LogInsert \/ LogRemove \/ LogClear

SpecLog == Init /\ [][NextLog]_vars

(***************************************************************************)
(* The queries, each taken right after a mutating call.  A query after a   *)
(* query is not followed: it starts from a graph a mutating call leaves.   *)
(***************************************************************************)

Mutating == {"New", "Insert", "Remove", "Clear"}

\* The values of max_distance tried, a negative one and one beyond every
\* distance between the strings tried.
Dists == -1..(MaxLen + 1)

DoQuery(name, graph, a, d, result) ==
  /\ op \in Mutating
  /\ root' = graph
  /\ pre' = root
  /\ op' = name
  /\ arg' = a
  /\ dist' = d
  /\ ret' = result
  /\ UNCHANGED log

ContainsStep ==
  \E s \in QStr :
    DoQuery("Contains", IF s = <<>> THEN root ELSE ContainsGraph(root, s, 0), s, 0,
            <<Contains(root, s)>>)

CountStep ==
  \E p \in QStr : \E ord \in Orders :
    DoQuery("Count", PathGraph(root, p, 0), p, 0, <<CountOrd(root, p, ord)>>)

SizeStep ==
  \E ord \in Orders :
    DoQuery("Size", PathGraph(root, <<>>, 0), <<>>, 0, <<CountOrd(root, <<>>, ord)>>)

MatchStep ==
  \E p \in QStr : \E ord \in Orders :
    DoQuery("Match", PathGraph(root, p, 0), p, 0, MatchWithCallback(root, p, ord))

MatchFuzzyStep ==
  \E q \in QStr : \E d \in Dists : \E ord \in Orders :
    DoQuery("MatchFuzzy", root, q, d, MatchFuzzy(root, q, d, ord))

GetStatsStep ==
  \E ord \in Orders : DoQuery("GetStats", root, <<>>, 0, <<GetStats(root, ord)>>)

ToJSONStep ==
  \E ord \in Orders :
    DoQuery("ToJSON", PathGraph(root, <<>>, 0), <<>>, 0, ToJSON(root, ord))

VisualizeStep ==
  \E ord \in Orders :
    DoQuery("Visualize", Visualize(root, ord).graph, <<>>, 0, Visualize(root, ord).out)

QueryStep ==
  \/ ContainsStep \/ CountStep \/ SizeStep \/ MatchStep
  \/ MatchFuzzyStep \/ GetStatsStep \/ ToJSONStep \/ VisualizeStep

NextQuery == InsertStep \/ RemoveStep \/ ClearStep \/ QueryStep

SpecQuery == Init /\ [][NextQuery]_vars

\* MatchFuzzy after the logged operations.
NextFuzzy == LogInsert \/ LogRemove \/ LogClear \/ MatchFuzzyStep

SpecFuzzy == Init /\ [][NextFuzzy]_vars

(***************************************************************************)
(* Decoding.  The texts handed to FromJSON are put together from a few     *)
(* fragments: the structural bytes, well-formed string literals, a lone    *)
(* quote, a literal with an escape FromJSON does not know, a literal with  *)
(* a \u escape, and a bare letter.                                         *)
(***************************************************************************)

Frags ==
  { <<LBracket>>, <<RBracket>>, <<Comma>>, <<Space>>,
    <<Quote, 97, Quote>>,
    <<Quote, 97, 97, Quote>>,
    <<Quote, Backslash, Quote, Quote>>,
    <<Quote>>,
    <<Quote, Backslash, 97, Quote>>,
    <<Quote, Backslash, LetterU, 48, 48, 54, 49, Quote>>,
    <<97>> }

\* The fragments of f, from the i-th on, written one after the other.
RECURSIVE Concat(_, _)
Concat(f, i) == IF i > Len(f) THEN <<>> ELSE f[i] \o Concat(f, i + 1)

\* FromJSON(json).  The texts taken are those whose string literals, as far as
\* FromJSON gets, hold symbols of Sym only.
DoFromJSON(json) ==
  LET r == FromJSON(root, json)
  IN  /\ \A i \in 1..Len(r.strs) : \A j \in 1..Len(r.strs[i]) : r.strs[i][j] \in Sym
      /\ root' = r.graph
      /\ pre' = root
      /\ op' = "FromJSON"
      /\ arg' = json
      /\ dist' = 0
      /\ ret' = <<r.ok>>

\* What the trie holds before it is decoded into: nothing, or one string.
ParseInsert == op = "New" /\ \E s \in Str : DoInsert(s) /\ UNCHANGED log

\* One decode is followed: a second starts by clearing what the first left.
ParseStep ==
  /\ op # "FromJSON"
  /\ \E n \in 0..MaxFrags : \E f \in [1..n -> Frags] :
       DoFromJSON(Concat(f, 1)) /\ UNCHANGED log

NextParse == ParseInsert \/ ParseStep

SpecParse == Init /\ [][NextParse]_vars

(***************************************************************************)
(* The round trip: a trie built by Insert and Remove calls, of strings of  *)
(* up to MaxLen + 1 symbols, is encoded and the text decoded into a fresh  *)
(* trie, which takes its place in root while pre keeps the trie encoded.   *)
(***************************************************************************)

DoRoundTrip(ord) ==
  LET json == ToJSON(root, ord)
      r == FromJSON(EmptyTrie, json)
  IN  /\ root' = r.graph
      /\ pre' = root
      /\ op' = "RoundTrip"
      /\ arg' = json
      /\ dist' = 0
      /\ ret' = <<r.ok>>

BuildInsert ==
  \E s \in QStr :
    /\ Len(log) < MaxOps /\ op # "RoundTrip"
    /\ DoInsert(s) /\ log' = Append(log, <<"Insert", s>>)

BuildRemove ==
  \E s \in QStr :
    /\ Len(log) < MaxOps /\ op # "RoundTrip"
    /\ DoRemove(s) /\ log' = Append(log, <<"Remove", s>>)

RoundTripStep == op # "RoundTrip" /\ \E ord \in Orders : DoRoundTrip(ord) /\ UNCHANGED log

NextRoundTrip == BuildInsert \/ BuildRemove \/ RoundTripStep

SpecRoundTrip == Init /\ [][NextRoundTrip]_vars

(***************************************************************************)
(* What a client can observe, and the abstract set of stored strings.      *)
(***************************************************************************)

\* The complete stored strings: the results of Match("").
Emitted(t) == Match(t, <<>>, CHOOSE o \in Orders : TRUE)

\* Size(), Contains, Count and Match answer alike on the two graphs.
SameAnswers(t1, t2) ==
  /\ Size(t1) = Size(t2)
  /\ \A s \in QStr :
       /\ Contains(t1, s) = Contains(t2, s)
       /\ Count(t1, s) = Count(t2, s)
       /\ \A ord \in Orders : Match(t1, s, ord) = Match(t2, s, ord)

\* No complete stored string of t shares a non-empty prefix with s.
NoSharedPrefix(t, s) == \A u \in Emitted(t) : u = <<>> \/ u[1] # s[1]

\* The non-empty strings inserted, and not removed or cleared since, by the
\* first n operations of the log l.
RECURSIVE StoredAfter(_, _)
StoredAfter(l, n) ==
  IF n = 0 THEN {}
  ELSE LET before == StoredAfter(l, n - 1)
           e == l[n]
       IN  IF e[1] = "Insert" THEN (IF e[2] = <<>> THEN before ELSE before \cup {e[2]})
           ELSE IF e[1] = "Remove" THEN before \ {e[2]}
           ELSE {}

Stored == StoredAfter(log, Len(log))

(***************************************************************************)
(* Insert calls alone, of non-empty strings into the empty trie, with the   *)
(* calls logged.                                                           *)
(***************************************************************************)

OrderInsert ==
  \E s \in Str \ {<<>>} :
    Len(log) < MaxOps /\ DoInsert(s) /\ log' = Append(log, <<"Insert", s>>)

NextOrder == OrderInsert

SpecOrder == Init /\ [][NextOrder]_vars

\* The orders in which n calls can be made.
CallOrders(n) == {f \in [1..n -> 1..n] : \A i, j \in 1..n : f[i] = f[j] => i = j}

\* The trie the first n calls of the log l, taken in the order f, make of the
\* empty trie.
RECURSIVE InsertAll(_, _, _)
InsertAll(l, f, n) ==
  IF n = 0 THEN EmptyTrie ELSE Insert(InsertAll(l, f, n - 1), l[f[n]][2])

(***************************************************************************)
(* The claims.                                                             *)
(***************************************************************************)

\* C1: after any sequence of Insert, Remove and Clear calls, for every prefix
\* p, Match(p) emits exactly the strings of the abstract set (inserted and not
\* removed or cleared since) that start with p, each exactly once.
C1_MatchEmitsAbstractSet ==
  \A p \in QStr : \A ord \in Orders :
    LET out  == MatchWithCallback(root, p, ord)
        want == {s \in Stored : IsPrefix(p, s)}
    IN  /\ Len(out) = Cardinality(want)
        /\ \A s \in want : \E i \in 1..Len(out) : out[i] = s

\* C2: in every state reached by Insert and Remove calls, Count("") equals
\* Size() equals the number of distinct non-empty strings inserted and not
\* removed since.
C2_SizeIsNumberStored ==
  (\A i \in 1..Len(log) : log[i][1] # "Clear")
    => /\ Count(root, <<>>) = Size(root)
       /\ Size(root) = Cardinality(Stored)

\* C3: immediately after Insert(s), Contains(s) is true.
C3_ContainsAfterInsert == op = "Insert" => Contains(root, arg)

\* An Insert of a string whose path did not exist, into a trie that holds a
\* string.
C3_Witness ==
  /\ op = "Insert"
  /\ Len(arg) = MaxLen
  /\ Size(pre) >= 1
  /\ ~Contains(pre, arg)
  /\ Contains(root, arg)

\* C4: Insert(s) followed at once by a second Insert(s) leaves the node graph
\* identical to the graph after the first, and Size() as it was.
C4_SecondInsertSameGraph ==
  [][(op = "Insert" /\ op' = "Insert" /\ arg' = arg)
       => (root' = root /\ Size(root') = Size(root))]_vars

\* An Insert(s) applied to the graph an Insert(s) leaves (the graph it found
\* is the graph it made), in a trie that holds another string as well.
C4_Witness ==
  /\ op = "Insert"
  /\ arg # <<>>
  /\ pre = Insert(pre, arg)
  /\ root = pre
  /\ Size(root) = 2

\* C5: Insert(s) of a string s that is already a complete stored string
\* changes nothing observable: Size(), Contains(t), Count(t) and Match(t) are
\* the same before and after, for every t.
C5_InsertStoredChangesNothing ==
  (op = "Insert" /\ arg \in Emitted(pre)) => SameAnswers(pre, root)

\* C6: for a non-empty s and a trie holding no string that shares a non-empty
\* prefix with s, Insert(s) then Remove(s) restores Contains(s) (false again)
\* and Size() to their values before the Insert.
C6_InsertRemoveRestores ==
  [][(/\ op = "Insert" /\ arg # <<>> /\ NoSharedPrefix(pre, arg)
      /\ op' = "Remove" /\ arg' = arg)
       => (/\ ~Contains(root', arg)
           /\ Contains(root', arg) = Contains(pre, arg)
           /\ Size(root') = Size(pre))]_vars

\* A Remove(s) applied to the graph that Insert(s) makes of a trie holding a
\* string but none sharing a prefix with s; the Remove gave that trie back.
C6_Witness ==
  /\ op = "Remove"
  /\ arg # <<>>
  /\ NoSharedPrefix(root, arg)
  /\ pre = Insert(root, arg)
  /\ pre # root
  /\ Size(root) >= 1
  /\ ~Contains(root, arg)

\* C7: for s1 a strict prefix of s2, both inserted (in either order) and not
\* removed since, Remove(s1) leaves s2 intact (Match(s2) returns s2 and
\* Contains(s2) is true), Contains(s1) stays true and Match(s1) no longer
\* returns s1.
C7_RemovePrefixKeepsExtension ==
  \A s1 \in Str : \A s2 \in Str :
    (/\ Len(log) >= 3
     /\ IsPrefix(s1, s2) /\ s1 # s2
     /\ log[Len(log)] = <<"Remove", s1>>
     /\ {<<"Insert", s1>>, <<"Insert", s2>>} = {log[Len(log) - 2], log[Len(log) - 1]})
      => \A ord \in Orders :
           /\ s2 \in Match(root, s2, ord)
           /\ Contains(root, s2)
           /\ Contains(root, s1)
           /\ s1 \notin Match(root, s1, ord)

\* C8: Remove(s) is a no-op when s is empty, when s's symbol path does not
\* exist, or when s is a prefix position but not a complete stored string:
\* Size(), Match(p), Count(p) and Contains(p) are then unchanged for every p.
C8_RemoveAbsentIsNoOp ==
  (/\ op = "Remove"
   /\ \/ arg = <<>>
      \/ ~PathExists(pre, arg, 0)
      \/ arg \notin Emitted(pre))
    => SameAnswers(pre, root)

\* C9: if s is among the results of Match(""), then after Remove(s) the
\* results of Match("") are the previous ones minus s, and Size() is one less.
C9_RemoveStoredRemovesOnlyIt ==
  (op = "Remove" /\ arg \in Emitted(pre))
    => /\ \A ord \in Orders : Match(root, <<>>, ord) = Match(pre, <<>>, ord) \ {arg}
       /\ Size(root) = Size(pre) - 1

\* A Remove of a stored string whose branch is shared with another stored
\* string, so that the walk back up has to stop.
C9_Witness ==
  /\ op = "Remove"
  /\ arg \in Emitted(pre)
  /\ Size(pre) = 2
  /\ \E u \in Emitted(root) : u[1] = arg[1]

\* C10: Contains(s) is true exactly when s is empty or s is a prefix (possibly
\* the whole) of a complete stored string.
C10_ContainsIffPrefixOfStored ==
  \A s \in QStr :
    Contains(root, s) <=> (s = <<>> \/ \E u \in Emitted(root) : IsPrefix(s, u))

\* The operations that are queries.
Queries == {"Contains", "Count", "Size", "Match", "MatchFuzzy", "GetStats", "ToJSON", "Visualize"}

\* The Levenshtein distance of two strings: insertions, deletions and
\* substitutions at unit cost.
RECURSIVE Lev(_, _)
Lev(a, b) ==
  IF a = <<>> THEN Len(b)
  ELSE IF b = <<>> THEN Len(a)
  ELSE LET del == Lev(Tail(a), b) + 1
           ins == Lev(a, Tail(b)) + 1
           sub == Lev(Tail(a), Tail(b)) + (IF Head(a) = Head(b) THEN 0 ELSE 1)
       IN  IF del <= ins /\ del <= sub THEN del ELSE IF ins <= sub THEN ins ELSE sub

\* C11: Insert("") is a no-op in every state (the node graph, Size() and all
\* Match, Count and Contains results are unchanged), and the empty string is
\* never emitted by Match or MatchFuzzy.
C11_InsertEmptyIsNoOp ==
  /\ (op = "Insert" /\ arg = <<>>) => (root = pre /\ SameAnswers(pre, root))
  /\ op = "Match" => \A i \in 1..Len(ret) : ret[i] # <<>>
  /\ op = "MatchFuzzy" => \A i \in 1..Len(ret) : ret[i][1] # <<>>
  /\ <<>> \notin Emitted(root)

\* An Insert("") into a trie that holds two strings.
C11_Witness ==
  /\ op = "Insert"
  /\ arg = <<>>
  /\ Size(pre) = 2
  /\ root = pre

\* C12: after Clear() the trie equals a freshly constructed one: Size() is 0,
\* Match(p) is empty for every p and Contains(s) is false for every non-empty s.
C12_ClearGivesFreshTrie ==
  op = "Clear"
    => /\ root = EmptyTrie
       /\ Size(root) = 0
       /\ \A p \in QStr : \A ord \in Orders : MatchWithCallback(root, p, ord) = <<>>
       /\ \A s \in QStr : s # <<>> => ~Contains(root, s)

\* A Clear of a trie that held two strings.
C12_Witness ==
  /\ op = "Clear"
  /\ Size(pre) = 2
  /\ Size(root) = 0

\* C13: for every prefix p, Count(p) equals the number of strings Match(p)
\* emits, and it is 0 when p's symbol path does not exist.
C13_CountIsNumberEmitted ==
  \A p \in QStr :
    /\ \A ord \in Orders : Count(root, p) = Len(MatchWithCallback(root, p, ord))
    /\ ~PathExists(root, p, 0) => Count(root, p) = 0

\* A trie with two strings, where a non-empty prefix selects one of them and
\* another prefix has no path.
C13_Witness ==
  /\ Size(root) = 2
  /\ \E p \in QStr : p # <<>> /\ Count(root, p) = 1
  /\ \E p \in QStr : ~PathExists(root, p, 0)

\* The result of the last MatchFuzzy is exact for the set stored: it holds a
\* pair for each string of the set within dist of the query and for no other,
\* each with the Levenshtein distance, no string twice.
FuzzyExactOn(stored) ==
  LET found == {ret[i][1] : i \in 1..Len(ret)}
  IN  /\ found = {S \in stored : Lev(arg, S) <= dist}
      /\ \A i \in 1..Len(ret) : ret[i][2] = Lev(arg, ret[i][1])
      /\ \A i \in 1..Len(ret) : \A j \in 1..Len(ret) : ret[i][1] = ret[j][1] => i = j
      /\ dist = 0 => found = stored \cap {arg}
      /\ dist < 0 => ret = <<>>

\* C14: for every query q and every integer d, MatchFuzzy(q, d) returns exactly
\* the pairs (S, lev(q, S)) for the complete stored strings S with
\* lev(q, S) <= d, each stored string at most once; for d = 0 these are the
\* stored strings equal to q, and for d < 0 there are none.
C14_MatchFuzzyIsExact == op = "MatchFuzzy" => FuzzyExactOn(Stored)

\* C15: for a trie T built from zero or more Insert and Remove calls, the trie
\* T' decoded from T's encoding has T'.Size() = T.Size() and, for every string
\* s ever passed to Insert while building T, T'.Contains(s) = T.Contains(s).
C15_RoundTripKeepsSizeAndContains ==
  op = "RoundTrip"
    => /\ Size(root) = Size(pre)
       /\ \A i \in 1..Len(log) :
            log[i][1] = "Insert" => (Contains(root, log[i][2]) = Contains(pre, log[i][2]))

\* C16: for every reachable trie T over byte-wide symbols (strings with a
\* quote in them included), FromJSON(T.ToJSON()) returns true and the decoded
\* trie has the same Match(p) result set as T for every prefix p.
C16_RoundTripKeepsMatch ==
  op = "RoundTrip"
    => /\ ret = <<TRUE>>
       /\ \A p \in QStr : \A ord \in Orders : Match(root, p, ord) = Match(pre, p, ord)

\* The strings FromJSON is handed by the text: the literals it decodes.
Listed(json) ==
  LET strs == FromJSON(EmptyTrie, json).strs
  IN  {strs[i] : i \in 1..Len(strs)} \ {<<>>}

\* C17: whenever FromJSON(text) returns false, the decode was not partially
\* applied: the trie is empty afterwards (Size() = 0), also when the malformed
\* part of the text comes after well-formed string elements.
C17_FailedDecodeLeavesEmpty ==
  (op = "FromJSON" /\ ret = <<FALSE>>) => (Size(root) = 0 /\ root = EmptyTrie)

\* The position after the string literal whose body goes on at pos, 0 when the
\* literal is unterminated or holds an escape that is not valid.
RECURSIVE LiteralBody(_, _)
LiteralBody(json, pos) ==
  IF pos > Len(json) THEN 0
  ELSE IF json[pos] = Quote THEN pos + 1
  ELSE IF json[pos] = Backslash
       THEN IF pos + 1 <= Len(json)
                 /\ json[pos + 1] \in {Quote, Backslash, LetterN, LetterR, LetterT}
            THEN LiteralBody(json, pos + 2)
            ELSE IF pos + 5 <= Len(json) /\ json[pos + 1] = LetterU
                      /\ \A i \in 2..5 : HexValue(json[pos + i]) >= 0
                 THEN LiteralBody(json, pos + 6)
                 ELSE 0
       ELSE LiteralBody(json, pos + 1)

\* The position after the string literal that starts at pos, 0 when none does.
Literal(json, pos) ==
  IF pos <= Len(json) /\ json[pos] = Quote THEN LiteralBody(json, pos + 1) ELSE 0

\* After an element: either the closing bracket and nothing but whitespace to
\* the end of the text, or a comma, an element and the same again.
RECURSIVE ListTail(_, _)
ListTail(json, pos) ==
  LET p == SkipWhitespace(json, pos)
  IN  IF p > Len(json) THEN FALSE
      ELSE IF json[p] = RBracket THEN SkipWhitespace(json, p + 1) > Len(json)
      ELSE IF json[p] = Comma
           THEN LET q == Literal(json, SkipWhitespace(json, p + 1))
                IN  q # 0 /\ ListTail(json, q)
           ELSE FALSE

\* The whole text is a bracketed list of double-quoted, validly escaped
\* strings separated by commas, with optional whitespace between the tokens.
WellFormed(json) ==
  LET p0 == SkipWhitespace(json, 1)
      p1 == SkipWhitespace(json, p0 + 1)
  IN  /\ p0 <= Len(json)
      /\ json[p0] = LBracket
      /\ p1 <= Len(json)
      /\ IF json[p1] = RBracket THEN SkipWhitespace(json, p1 + 1) > Len(json)
         ELSE LET q == Literal(json, p1)
              IN  q # 0 /\ ListTail(json, q)

\* C18: FromJSON(text) returns true only when the whole of text is a bracketed
\* list of double-quoted, validly escaped strings separated by commas, with
\* optional whitespace between tokens; it returns false for a missing opening
\* or closing bracket, an unterminated string literal, an invalid escape
\* sequence, or any character where a quote is expected.
C18_TrueOnlyForWellFormed ==
  (op = "FromJSON" /\ ret = <<TRUE>>) => WellFormed(arg)

\* C19: whenever FromJSON(text) returns true, whatever the trie held before,
\* Match("") afterwards is exactly the set of distinct non-empty strings listed
\* in the text, and Size() is their number.
C19_DecodedIsListed ==
  (op = "FromJSON" /\ ret = <<TRUE>>)
    => /\ \A ord \in Orders : Match(root, <<>>, ord) = Listed(arg)
       /\ Size(root) = Cardinality(Listed(arg))

\* C20: Contains, Count, Size, Match, MatchFuzzy, GetStats, ToJSON and
\* Visualize leave the node graph unchanged, for every argument (absent
\* prefixes included): no node or map entry is created, replaced or removed.
C20_QueriesLeaveGraph == op \in Queries => root = pre

\* A Count of a prefix whose path ends halfway, on a trie that holds a string.
C20_Witness ==
  /\ op = "Count"
  /\ Len(arg) = MaxLen + 1
  /\ PathExists(pre, Take(arg, 1), 0)
  /\ ~PathExists(pre, arg, 0)
  /\ Size(pre) >= 1
  /\ root = pre

\* The longest of a set of strings, 0 for the empty set.
MaxLength(strs) ==
  IF strs = {} THEN 0 ELSE CHOOSE n \in 0..(2 * MaxLen + 2) :
    /\ \E t \in strs : Len(t) = n
    /\ \A t \in strs : Len(t) <= n

RECURSIVE SumLength(_)
\* The sum of the lengths of a set of strings.
SumLength(strs) ==
  IF strs = {} THEN 0
  ELSE LET t == CHOOSE x \in strs : TRUE IN Len(t) + SumLength(strs \ {t})

\* C21: GetStats().num_nodes is the number of nodes of the trie, the root and
\* the termination markers included; it is 1 for the empty trie.
C21_NumNodesIsGraphSize ==
  op = "GetStats" =>
    /\ ret[1].num_nodes = Cardinality(DOMAIN root)
    /\ (root = EmptyTrie => ret[1].num_nodes = 1)

\* C22: GetStats().memory_bytes is num_nodes nodes and E edges at their
\* overheads, where E counts every edge of the trie, those leaving the root and
\* those entering a termination marker included, so E = num_nodes - 1.
C22_MemoryCountsEveryEdge ==
  op = "GetStats" =>
    ret[1].memory_bytes = ret[1].num_nodes * NodeOverhead
                          + (Cardinality(DOMAIN root) - 1) * MapEntryOverhead

\* C23: GetStats().max_depth is the number of symbols of the longest string
\* the trie holds, and the depth total behind avg_depth is the sum of the
\* numbers of symbols of the strings it holds.
C23_DepthIsStringLength ==
  op = "GetStats" =>
    /\ ret[1].max_depth = MaxLength(Emitted(root))
    /\ ret[1].total_depth = SumLength(Emitted(root))

\* The termination markers among the children of the node at path p.
MarkerChildren(t, p) == {c \in Children(t, p) : t[Append(p, c)] = NUL}

\* C24: after any sequence of Insert, Remove and Clear calls, every
\* termination marker has no children, and every stored string has exactly one
\* termination marker among the children of the node its symbols lead to.
C24_MarkersAreLeaves ==
  /\ \A p \in Markers(root) : Children(root, p) = {}
  /\ \A s \in Stored :
       /\ s \in DOMAIN root
       /\ Cardinality(MarkerChildren(root, s)) = 1

\* C27: Insert(s) of a non-empty string s removes no other string: every
\* string other than s that Match("") emitted before the call is emitted after
\* it, also when one of the two is a strict prefix of the other.
C27_InsertKeepsOthers ==
  (op = "Insert" /\ arg # <<>>)
    => \A t \in Emitted(pre) \ {arg} : t \in Emitted(root)

\* The node at the i-th symbol of s has the path's next entry as its only
\* child.
OnlyChild(t, s, i) ==
  Children(t, Take(s, i)) = {IF i = Len(s) THEN s[Len(s)] ELSE s[i + 1]}

\* The ancestors a Remove(s) that finds s leaves childless: those from which
\* everything below hangs on the path of s alone.  The root is not among them.
LeftChildless(t, s) ==
  {Take(s, i) : i \in {i \in 1..Len(s) : \A j \in i..Len(s) : OnlyChild(t, s, j)}}

\* C25: after any sequence of Insert, Remove and Clear calls every childless
\* node other than the root is a termination marker; a Remove that changes the
\* graph takes away the marker's subtree and exactly the ancestors that became
\* childless, up to the first that still has children, and keeps the root.
C25_RemovePrunesChildless ==
  /\ \A p \in DOMAIN root \ {<<>>} : Children(root, p) = {} => root[p] = NUL
  /\ (op = "Remove" /\ root # pre) =>
       /\ <<>> \in DOMAIN root
       /\ DOMAIN root \subseteq DOMAIN pre
       /\ \A q \in DOMAIN root : root[q] = pre[q]
       /\ DOMAIN pre \ DOMAIN root =
            {q \in DOMAIN pre : IsPrefix(Append(arg, arg[Len(arg)]), q)}
              \cup LeftChildless(pre, arg)

\* A Remove whose walk back up has removed a childless ancestor and stopped at
\* an ancestor below the root that still has children.
C25_Witness ==
  /\ op = "Remove"
  /\ root # pre
  /\ LeftChildless(pre, arg) # {}
  /\ \E i \in 1..(Len(arg) - 1) :
       /\ Take(arg, i) \in DOMAIN root
       /\ Take(arg, i + 1) \notin DOMAIN root
       /\ Children(root, Take(arg, i)) # {}

\* The termination markers the traversal from the end node of p comes to: those
\* below that node with no other marker on the way down to them.
MarkersBelow(t, p) ==
  {m \in Markers(t) :
     /\ Len(m) > Len(p)
     /\ IsPrefix(p, m)
     /\ \A j \in (Len(p) + 1)..(Len(m) - 1) : t[Take(m, j)] # NUL}

\* p followed by the keys of the nodes from below the end node of p down to
\* the parent of the marker m.
PathString(t, p, m) ==
  p \o [j \in 1..(Len(m) - 1 - Len(p)) |-> t[Take(m, Len(p) + j)]]

\* C26: for a prefix p whose path exists, MatchWithCallback emits one string
\* for each termination marker its traversal comes to and nothing else, and
\* each emitted string is p followed by the keys of the nodes between the end
\* node of p and the marker, for either order of the children.
C26_MatchEmitsPathStrings ==
  (op = "Match" /\ PathExists(root, arg, 0)) =>
    /\ Len(ret) = Cardinality(MarkersBelow(root, arg))
    /\ \A m \in MarkersBelow(root, arg) :
         \E i \in 1..Len(ret) : ret[i] = PathString(root, arg, m)
    /\ \A i \in 1..Len(ret) :
         \E m \in MarkersBelow(root, arg) : ret[i] = PathString(root, arg, m)

\* C28: the set of strings Match("") emits, and Size(), after Insert calls of
\* non-empty strings into the empty trie do not depend on the order of the
\* calls.
C28_InsertOrderIrrelevant ==
  \A f \in CallOrders(Len(log)) :
    LET other == InsertAll(log, f, Len(log))
    IN  /\ \A ord \in Orders : Match(other, <<>>, ord) = Match(root, <<>>, ord)
        /\ Size(other) = Size(root)

\* Calls of two strings that, made in another order, leave another graph: one
\* of the strings continues the other, and which of them is written last
\* decides the shape.
C28_Witness ==
  /\ Len(log) >= 2
  /\ \E f \in CallOrders(Len(log)) : InsertAll(log, f, Len(log)) # root
  /\ \E i, j \in 1..Len(log) :
       log[i][2] # log[j][2] /\ IsPrefix(log[i][2], log[j][2])

====
